---- MODULE Spec2Model ----
(***************************************************************************)
(* floydpaste (src/main.py): a FastAPI pastebin over one SQL table.        *)
(*                                                                         *)
(* State: the `pastes` table, the storage engine's reachability, the       *)
(* application's lifecycle phase, the wall clock read by datetime.utcnow,  *)
(* the POST /api/paste requests (each suspended at most once, at           *)
(* `await database.execute`), and the response of the latest GET handler.  *)
(***************************************************************************)
EXTENDS Integers, Sequences, FiniteSets, TLC

\* ------------------------------------------------------------------ bounds

\* POST /api/paste requests the model follows (they may overlap).
MaxReqs == 2
\* Clock ticks after the start of the run.
MaxTicks == 1
\* Pastes a previous run of the service left in the table (the table is
\* durable: metadata.create_all keeps an existing table and its rows).
BaseCount == 9

\* ------------------------------------------------------- program constants

\* .limit(10) of top_pastes and of recent_pastes
TopLimit == 10
RecentLimit == 10

\* ------------------------------------------------------------------ values

Reqs == 1..MaxReqs

RECURSIVE Rep(_)
\* A text of k characters.
Rep(k) == IF k = 0 THEN "" ELSE "a" \o Rep(k - 1)

HexDigit == <<"1", "2", "3", "4", "5", "6", "7", "8", "9", "a", "b", "c", "d", "e">>

\* The id of the k-th paste of the previous run.
BaseId(k) == "0000000" \o HexDigit[k]

\* uuid4().hex values, as (the first 8 hex characters, the 24 that follow):
\* two distinct uuids may agree on the first 8 characters.
HexPrefixes == {"f0000000", "f0000001"}
HexSuffixes == {"0", "1"}
Uuids == HexPrefixes \X HexSuffixes

\* uuid.uuid4().hex[:8]: keeps the first 8 characters and drops the rest.
Hex8(u) == u[1]

\* Path parameters tried on GET /paste/{paste_id}.
PathIds == HexPrefixes \cup {BaseId(1), "ffffffff"}

\* A submitted form field is absent ({}) or present with a text ({text}).
Absent == {}
Given(text) == {text}

AllAbsent == [content |-> Absent, title |-> Absent, syntax |-> Absent,
              expires |-> Absent, visibility |-> Absent]

\* Forms of the concurrency scenarios: content missing, empty, or one character.
SmallForms == {[AllAbsent EXCEPT !.content = c] : c \in {Absent, Given(""), Given("a")}}

\* Forms of the listing scenarios, by content length: missing, 1 (ties with
\* the shortest earlier paste) and BaseCount + 1 (longer than every earlier
\* paste, and as long as another new one).
LengthForms ==
    {[AllAbsent EXCEPT !.content = c] :
        c \in {Absent, Given("a"), Given(Rep(BaseCount + 1))}}

\* Forms of the round-trip scenarios: content "hello world" with every
\* optional field omitted, with every optional field given, and with some
\* given, one omitted and the title empty; and an empty content.
HelloForm == [AllAbsent EXCEPT !.content = Given("hello world")]
FieldForms ==
    {HelloForm,
     [AllAbsent EXCEPT !.content = Given("")],
     [content |-> Given("hello world"), title |-> Given("T"), syntax |-> Given("python"),
      expires |-> Given("1h"), visibility |-> Given("private")],
     [content |-> Given("hello world"), title |-> Given(""), syntax |-> Given("python"),
      expires |-> Absent, visibility |-> Given("private")]}

NoForm == AllAbsent

NoRow == [id |-> "", content |-> "", title |-> "", syntax |-> "",
          expires |-> "", visibility |-> "", created_at |-> 0]

\* ------------------------------------------------------------------- state

VARIABLES
    rows,       \* the rows of table `pastes`
    engineUp,   \* the storage engine answers queries
    phase,      \* "init" (imported), "serving" (after startup), "stopped"
    clock,      \* datetime.utcnow()
    req,        \* the POST /api/paste requests
    reply       \* the response of the handler that ran last, if it was a GET

vars == <<rows, engineUp, phase, clock, req, reply>>

\* The shape of the state: a row has the seven columns of `pastes`.
TypeOK ==
    /\ \A row \in rows :
           DOMAIN row = {"id", "content", "title", "syntax", "expires",
                         "visibility", "created_at"}
    /\ engineUp \in BOOLEAN
    /\ phase \in {"init", "serving", "stopped"}
    /\ clock \in Nat
    /\ \A r \in DOMAIN req : req[r].pc \in {"idle", "execute", "done"}
    /\ reply.op \in {"none", "index", "top", "view", "recent", "ping"}

\* Rows written by BaseCount sequential creations of a previous run: the k-th
\* has a content of k characters and was created at instant k.
BaseRows ==
    {[id |-> BaseId(k), content |-> Rep(k), title |-> "Untitled Paste",
      syntax |-> "none", expires |-> "never", visibility |-> "public",
      created_at |-> k] : k \in 1..BaseCount}

\* A request: its place in create_paste, the form it submitted, the row of its
\* insert, the inserts it has executed, and its response (status 0: none yet).
IdleReq == [pc |-> "idle", form |-> NoForm, query |-> NoRow, inserts |-> 0,
            status |-> 0, url |-> ""]

NoReply == [op |-> "none", arg |-> "", status |-> 0, page |-> NoRow,
            items |-> <<>>, detail |-> ""]

InitWith(table) ==
    /\ rows = table
    /\ engineUp = TRUE
    /\ phase = "init"
    /\ clock = BaseCount + 1
    /\ req = [r \in Reqs |-> IdleReq]
    /\ reply = NoReply

\* ------------------------------------------------------- the storage engine

\* Mutant: the id column without its primary key.
NoPrimaryKey(id) == TRUE

\* Column("id", String, primary_key=True): an insert whose id is already in
\* the table violates the primary key.
PrimaryKeyFree(id) == \A row \in rows : row.id # id

\* pastes.insert().values(...) executed: the table with the row added.
Insert(row) == rows \cup {row}

\* select([pastes]).where(pastes.c.id == paste_id), fetch_one: the matching
\* rows (none: fetch_one returns None).
FetchOne(id) == {row \in rows : row.id = id}

Max(S) == CHOOSE m \in S : \A n \in S : n <= m
Min2(a, b) == IF a <= b THEN a ELSE b

\* Every order of the rows of G.
Orders(G) ==
    {s \in [1..Cardinality(G) -> G] : \A i, j \in DOMAIN s : i # j => s[i] # s[j]}

RECURSIVE OrderByDesc(_, _)
\* ORDER BY key DESC over the rows S (key: row -> number): larger keys first,
\* rows of equal key in any order the engine picks.
OrderByDesc(S, key) ==
    IF S = {} THEN {<<>>}
    ELSE LET m == Max({key[row] : row \in S})
             G == {row \in S : key[row] = m}
         IN  {p \o q : p \in Orders(G), q \in OrderByDesc(S \ G, key)}

\* .limit(n)
Limit(s, n) == SubSeq(s, 1, Min2(n, Len(s)))

\* [{"id": r["id"], "title": r["title"]} for r in rows]
IdTitle(s) == [i \in DOMAIN s |-> [id |-> s[i].id, title |-> s[i].title]]

\* Mutant: the top listing ordered by created_at, as the recent listing is.
TopOrdersByCreatedAt(table) == OrderByDesc(table, [row \in table |-> row.created_at])

\* order_by(func.length(pastes.c.content).desc()) over the rows of `table`
TopOrders(table) == OrderByDesc(table, [row \in table |-> Len(row.content)])

\* Mutant: the recent listing in ascending order (oldest first).
RecentOrdersAsc(table) == OrderByDesc(table, [row \in table |-> 0 - row.created_at])

\* order_by(pastes.c.created_at.desc()) over the rows of `table`
RecentOrders(table) == OrderByDesc(table, [row \in table |-> row.created_at])

\* ------------------------------------------------------------ form parsing

\* Mutant: an empty field counts as received.
ReceivedEmpty(field) == field # Absent

\* FastAPI's Form(): a field that is absent, or present and empty, counts as
\* not received.
Received(field) == field # Absent /\ field # Given("")

\* content: str = Form(...): required.
FormValid(form) == Received(form.content)

\* Form(default): the received text, else the default.
FormValue(field, default) ==
    IF Received(field) THEN CHOOSE text \in field : TRUE ELSE default

\* ----------------------------------------------------------------- actions

\* @app.on_event("startup"): database.connect()
startup ==
    /\ phase = "init"
    /\ engineUp
    /\ phase' = "serving"
    /\ reply' = NoReply
    /\ UNCHANGED <<rows, engineUp, clock, req>>

\* @app.on_event("shutdown"): database.disconnect(), once no request is in
\* flight.
shutdown ==
    /\ phase = "serving"
    /\ \A r \in Reqs : req[r].pc # "execute"
    /\ phase' = "stopped"
    /\ reply' = NoReply
    /\ UNCHANGED <<rows, engineUp, clock, req>>

\* Time passes.
Tick ==
    /\ clock < BaseCount + 1 + MaxTicks
    /\ clock' = clock + 1
    /\ reply' = NoReply
    /\ UNCHANGED <<rows, engineUp, phase, req>>

\* The storage engine becomes unreachable, or reachable again.
StorageFails ==
    /\ engineUp
    /\ engineUp' = FALSE
    /\ reply' = NoReply
    /\ UNCHANGED <<rows, phase, clock, req>>

StorageRecovers ==
    /\ ~engineUp
    /\ engineUp' = TRUE
    /\ reply' = NoReply
    /\ UNCHANGED <<rows, phase, clock, req>>

\* Mutant: the defaults of syntax and expires exchanged.
NewRowSwapped(form, uuid, now) ==
    [id |-> Hex8(uuid),
     content |-> FormValue(form.content, ""),
     title |-> FormValue(form.title, "Untitled Paste"),
     syntax |-> FormValue(form.syntax, "never"),
     expires |-> FormValue(form.expires, "none"),
     visibility |-> FormValue(form.visibility, "public"),
     created_at |-> now]

\* The row create_paste builds from its parameters (lines 67-78).
NewRow(form, uuid, now) ==
    [id |-> Hex8(uuid),
     content |-> FormValue(form.content, ""),
     title |-> FormValue(form.title, "Untitled Paste"),
     syntax |-> FormValue(form.syntax, "none"),
     expires |-> FormValue(form.expires, "never"),
     visibility |-> FormValue(form.visibility, "public"),
     created_at |-> now]

\* POST /api/paste, up to `await database.execute(query)`: the form is
\* parsed (422 when content is not received), the id and the timestamp are
\* taken and the insert is built. Requests are numbered as they arrive.
create_paste_begin(r, form, uuid) ==
    /\ phase = "serving"
    /\ req[r].pc = "idle"
    /\ \A earlier \in 1..(r - 1) : req[earlier].pc # "idle"
    /\ req' = [req EXCEPT ![r] =
                 IF FormValid(form)
                 THEN [pc |-> "execute", form |-> form,
                       query |-> NewRow(form, uuid, clock), inserts |-> 0,
                       status |-> 0, url |-> ""]
                 ELSE [pc |-> "done", form |-> form, query |-> NoRow, inserts |-> 0,
                       status |-> 422, url |-> ""]]
    /\ reply' = NoReply
    /\ UNCHANGED <<rows, engineUp, phase, clock>>

\* Mutant: an insert that overwrites the row of the same id (an upsert).
create_paste_upsert(r) ==
    /\ req[r].pc = "execute"
    /\ LET row == req[r].query
       IN  /\ rows' = IF engineUp
                       THEN {old \in rows : old.id # row.id} \cup {row}
                       ELSE rows
           /\ req' = [req EXCEPT ![r] =
                        IF engineUp
                        THEN [@ EXCEPT !.pc = "done", !.inserts = @ + 1, !.status = 200,
                                       !.url = "/paste/" \o row.id]
                        ELSE [@ EXCEPT !.pc = "done", !.inserts = @ + 1, !.status = 500]]
    /\ reply' = NoReply
    /\ UNCHANGED <<engineUp, phase, clock>>

\* POST /api/paste, from the execution of the insert to the response.
create_paste_execute(r) ==
    /\ req[r].pc = "execute"
    /\ LET row == req[r].query
           ok == engineUp /\ PrimaryKeyFree(row.id)
       IN  /\ rows' = IF ok THEN Insert(row) ELSE rows
           /\ req' = [req EXCEPT ![r] =
                        IF ok
                        THEN [@ EXCEPT !.pc = "done", !.inserts = @ + 1, !.status = 200,
                                       !.url = "/paste/" \o row.id]
                        ELSE [@ EXCEPT !.pc = "done", !.inserts = @ + 1, !.status = 500]]
    /\ reply' = NoReply
    /\ UNCHANGED <<engineUp, phase, clock>>

\* GET /
index ==
    /\ phase = "serving"
    /\ reply' = [NoReply EXCEPT !.op = "index", !.status = 200]
    /\ UNCHANGED <<rows, engineUp, phase, clock, req>>

\* GET /api/top
top_pastes ==
    /\ phase = "serving"
    /\ IF engineUp
       THEN \E s \in TopOrders(rows) :
                reply' = [NoReply EXCEPT !.op = "top", !.status = 200,
                                         !.items = IdTitle(Limit(s, TopLimit))]
       ELSE reply' = [NoReply EXCEPT !.op = "top", !.status = 500]
    /\ UNCHANGED <<rows, engineUp, phase, clock, req>>

\* Mutant: a paste is deleted once it has been viewed.
view_paste_burn(paste_id) ==
    /\ phase = "serving"
    /\ IF ~engineUp
       THEN /\ reply' = [NoReply EXCEPT !.op = "view", !.arg = paste_id, !.status = 500]
            /\ rows' = rows
       ELSE IF FetchOne(paste_id) = {}
       THEN /\ reply' = [NoReply EXCEPT !.op = "view", !.arg = paste_id, !.status = 404,
                                        !.detail = "Paste not found"]
            /\ rows' = rows
       ELSE /\ \E row \in FetchOne(paste_id) :
                   reply' = [NoReply EXCEPT !.op = "view", !.arg = paste_id,
                                            !.status = 200, !.page = row]
            /\ rows' = rows \ FetchOne(paste_id)
    /\ UNCHANGED <<engineUp, phase, clock, req>>

\* Mutant: the `if not row` test left out; a miss renders an empty page.
view_paste_unchecked(paste_id) ==
    /\ phase = "serving"
    /\ IF ~engineUp
       THEN reply' = [NoReply EXCEPT !.op = "view", !.arg = paste_id, !.status = 500]
       ELSE \E row \in (IF FetchOne(paste_id) = {} THEN {NoRow} ELSE FetchOne(paste_id)) :
                reply' = [NoReply EXCEPT !.op = "view", !.arg = paste_id,
                                         !.status = 200, !.page = row]
    /\ UNCHANGED <<rows, engineUp, phase, clock, req>>

\* GET /paste/{paste_id}
view_paste(paste_id) ==
    /\ phase = "serving"
    /\ IF ~engineUp
       THEN reply' = [NoReply EXCEPT !.op = "view", !.arg = paste_id, !.status = 500]
       ELSE IF FetchOne(paste_id) = {}
       THEN reply' = [NoReply EXCEPT !.op = "view", !.arg = paste_id, !.status = 404,
                                     !.detail = "Paste not found"]
       ELSE \E row \in FetchOne(paste_id) :
                reply' = [NoReply EXCEPT !.op = "view", !.arg = paste_id,
                                         !.status = 200, !.page = row]
    /\ UNCHANGED <<rows, engineUp, phase, clock, req>>

\* GET /api/recent
recent_pastes ==
    /\ phase = "serving"
    /\ IF engineUp
       THEN \E s \in RecentOrders(rows) :
                reply' = [NoReply EXCEPT !.op = "recent", !.status = 200,
                                         !.items = IdTitle(Limit(s, RecentLimit))]
       ELSE reply' = [NoReply EXCEPT !.op = "recent", !.status = 500]
    /\ UNCHANGED <<rows, engineUp, phase, clock, req>>

\* Mutant: a health check that queries the storage engine.
ping_storage ==
    /\ phase = "serving"
    /\ reply' = IF engineUp
                THEN [NoReply EXCEPT !.op = "ping", !.status = 200, !.detail = "alive"]
                ELSE [NoReply EXCEPT !.op = "ping", !.status = 500]
    /\ UNCHANGED <<rows, engineUp, phase, clock, req>>

\* GET /ping
ping ==
    /\ phase = "serving"
    /\ reply' = [NoReply EXCEPT !.op = "ping", !.status = 200, !.detail = "alive"]
    /\ UNCHANGED <<rows, engineUp, phase, clock, req>>

\* The steps of the service, its forms drawn from F.
Step(F) ==
    \/ startup
    \/ shutdown
    \/ Tick
    \/ \E r \in Reqs, form \in F, uuid \in Uuids : create_paste_begin(r, form, uuid)
    \/ \E r \in Reqs : create_paste_execute(r)
    \/ index
    \/ top_pastes
    \/ \E paste_id \in PathIds : view_paste(paste_id)
    \/ recent_pastes
    \/ ping

\* A fresh table; the storage engine stays reachable.
Init == InitWith({})
Next == Step(SmallForms)
Spec == Init /\ [][Next]_vars

\* A fresh table; the storage engine may fail and recover at any time.
NextOutage == Step(SmallForms) \/ StorageFails \/ StorageRecovers
SpecOutage == Init /\ [][NextOutage]_vars

\* A fresh table; forms that vary the optional fields.
NextForms == Step(FieldForms)
SpecForms == Init /\ [][NextForms]_vars

\* The table a previous run left; forms that vary the content length.
InitList == InitWith(BaseRows)
NextList == Step(LengthForms)
SpecList == InitList /\ [][NextList]_vars

\* ------------------------------------------------------------------ claims

\* The requests that have returned a URL.
Created == {r \in Reqs : req[r].pc = "done" /\ req[r].status = 200}

\* The ids of the stored pastes.
StoredIds == {row.id : row \in rows}

\* The stored row of a stored id.
RowOf(id) == CHOOSE row \in rows : row.id = id

\* GET <url> is routed to view_paste(paste_id).
Routes(url, paste_id) == url = "/paste/" \o paste_id

\* What a request submitted for a field: its text, or the default when the
\* field was omitted.
Submitted(field, default) ==
    IF field = Absent THEN default ELSE CHOOSE text \in field : TRUE

\* What a request submitted for a field: its text, or the default when the
\* field was omitted or empty.
SubmittedNonEmpty(field, default) ==
    IF field = Absent \/ field = Given("") THEN default ELSE CHOOSE text \in field : TRUE

\* C1, as stated: a view of the URL a creation returned shows the submitted
\* content, title, syntax, expires and visibility, each OMITTED optional
\* field at its default. (Refuted: a title submitted empty is stored as
\* "Untitled Paste".)
C1_RoundTripOmitted ==
    \A r \in Created :
        (reply.op = "view" /\ Routes(req[r].url, reply.arg)) =>
            /\ reply.status = 200
            /\ reply.page.content = Submitted(req[r].form.content, "")
            /\ reply.page.title = Submitted(req[r].form.title, "Untitled Paste")
            /\ reply.page.syntax = Submitted(req[r].form.syntax, "none")
            /\ reply.page.expires = Submitted(req[r].form.expires, "never")
            /\ reply.page.visibility = Submitted(req[r].form.visibility, "public")

\* C1, amended: a view of the URL a creation returned, after any other
\* creations and reads, shows the submitted content, title, syntax, expires
\* and visibility, each optional field that was omitted OR SUBMITTED EMPTY
\* at its default.
C1_RoundTrip ==
    \A r \in Created :
        (reply.op = "view" /\ Routes(req[r].url, reply.arg)) =>
            /\ reply.status = 200
            /\ req[r].form.content # Absent /\ req[r].form.content # Given("")
            /\ reply.page.content = SubmittedNonEmpty(req[r].form.content, "")
            /\ reply.page.title = SubmittedNonEmpty(req[r].form.title, "Untitled Paste")
            /\ reply.page.syntax = SubmittedNonEmpty(req[r].form.syntax, "none")
            /\ reply.page.expires = SubmittedNonEmpty(req[r].form.expires, "never")
            /\ reply.page.visibility = SubmittedNonEmpty(req[r].form.visibility, "public")

\* C1 witness: a paste created with an empty title, a syntax, no expires
\* and a visibility is viewed after another creation completed.
C1_Witness ==
    \E r, other \in Created :
        /\ r # other
        /\ req[r].form.title = Given("")
        /\ req[r].form.syntax = Given("python")
        /\ req[r].form.expires = Absent
        /\ reply.op = "view" /\ reply.status = 200
        /\ Routes(req[r].url, reply.arg)
        /\ reply.page.content = "hello world"
        /\ reply.page.title = "Untitled Paste"
        /\ reply.page.syntax = "python"
        /\ reply.page.expires = "never"
        /\ reply.page.visibility = "private"
        /\ req[other].query.created_at > req[r].query.created_at

\* C2: the requests that returned a URL returned pairwise distinct ids, and
\* no two stored rows share an id.
C2_UniqueIds ==
    /\ \A r1, r2 \in Created : r1 # r2 => req[r1].url # req[r2].url
    /\ \A row1, row2 \in rows : row1.id = row2.id => row1 = row2

\* C2 witness: two creations that took their timestamp at the same instant
\* have both returned a URL.
C2_Witness ==
    \E r1, r2 \in Created :
        /\ r1 # r2
        /\ req[r1].query.created_at = req[r2].query.created_at

\* C3, as stated: a creation whose generated id collides is retried; a
\* request ends in a 5xx failure only after more than one insert.
\* (Refuted: create_paste executes one insert and lets the conflict out.)
C3_ConflictRetried ==
    \A r \in Reqs :
        (req[r].pc = "done" /\ req[r].status = 500) => req[r].inserts > 1

\* The rows of a listing's items, in the listing's order.
ItemRows(items) == [i \in DOMAIN items |-> RowOf(items[i].id)]

\* The sequence of numbers s is in descending order.
Descending(s) == \A i, j \in DOMAIN s : i < j => s[i] >= s[j]

\* C4, as stated (second part): when a creation completes, its paste is the
\* first entry of a recent listing taken next, whatever other creations did.
\* (Refuted: a concurrent creation with a later or equal timestamp may be
\* listed first.)
C4_CreatedIsFirst ==
    [][\A r \in Reqs :
          (req[r].pc = "execute" /\ req'[r].pc = "done" /\ req'[r].status = 200) =>
              \A s \in RecentOrders(rows') : s[1].id = req[r].query.id]_vars

\* C4, amended: recent_pastes returns exactly min(10, stored pastes)
\* {id, title} entries in descending order of created_at, and a stored paste
\* whose created_at is strictly later than that of every other stored paste
\* is the first entry.
C4_RecentListing ==
    (reply.op = "recent" /\ reply.status = 200) =>
        /\ Len(reply.items) = Min2(10, Cardinality(rows))
        /\ \A i \in DOMAIN reply.items : reply.items[i].id \in StoredIds
        /\ \A i \in DOMAIN reply.items : DOMAIN reply.items[i] = {"id", "title"}
        /\ \A i \in DOMAIN reply.items : reply.items[i].title = RowOf(reply.items[i].id).title
        /\ \A i, j \in DOMAIN reply.items : i # j => reply.items[i].id # reply.items[j].id
        /\ Descending([i \in DOMAIN reply.items |-> ItemRows(reply.items)[i].created_at])
        /\ \A row \in rows :
               (\A other \in rows \ {row} : other.created_at < row.created_at) =>
                   reply.items[1].id = row.id

\* C4 witness: with eleven pastes stored, a recent listing of ten entries
\* starts with the paste of a creation that completed in this run.
C4_Witness ==
    /\ reply.op = "recent" /\ reply.status = 200
    /\ Cardinality(rows) = 11
    /\ Len(reply.items) = 10
    /\ \E r \in Created :
           /\ reply.items[1].id = req[r].query.id
           /\ \A other \in rows \ {req[r].query} :
                  other.created_at < req[r].query.created_at

\* C5: top_pastes returns exactly min(10, stored pastes) {id, title} entries
\* in descending order of content length, and a stored paste whose content
\* is strictly longer than that of every other stored paste is the first
\* entry.
C5_TopListing ==
    (reply.op = "top" /\ reply.status = 200) =>
        /\ Len(reply.items) = Min2(10, Cardinality(rows))
        /\ \A i \in DOMAIN reply.items : reply.items[i].id \in StoredIds
        /\ \A i \in DOMAIN reply.items : DOMAIN reply.items[i] = {"id", "title"}
        /\ \A i \in DOMAIN reply.items : reply.items[i].title = RowOf(reply.items[i].id).title
        /\ \A i, j \in DOMAIN reply.items : i # j => reply.items[i].id # reply.items[j].id
        /\ Descending([i \in DOMAIN reply.items |-> Len(ItemRows(reply.items)[i].content)])
        /\ \A row \in rows :
               (\A other \in rows \ {row} : Len(other.content) < Len(row.content)) =>
                   reply.items[1].id = row.id

\* C5 witness: with eleven pastes stored, a top listing of ten entries starts
\* with the strictly longest paste, which was created before a shorter one.
C5_Witness ==
    /\ reply.op = "top" /\ reply.status = 200
    /\ Cardinality(rows) = 11
    /\ Len(reply.items) = 10
    /\ \E r \in Created :
           /\ reply.items[1].id = req[r].query.id
           /\ \A other \in rows \ {req[r].query} :
                  Len(other.content) < Len(req[r].query.content)
           /\ \E later \in rows :
                  /\ later.created_at > req[r].query.created_at
                  /\ Len(later.content) < Len(req[r].query.content)

\* C6: no step changes or removes a stored row, and a lookup of a stored id
\* finds the same row after the step as before it.
C6_Immutable ==
    [][\A row \in rows : row \in rows' /\ FetchOne(row.id)' = FetchOne(row.id)]_vars

\* C6 witness: a stored paste is viewed after a later creation was stored.
C6_Witness ==
    /\ reply.op = "view" /\ reply.status = 200
    /\ \E row \in rows : row.created_at > reply.page.created_at

\* C7: a view of an id that is not stored answers 404 "Paste not found" and
\* leaves the table as it was.
C7_NotFound ==
    [][(reply'.op = "view" /\ reply'.arg \notin StoredIds) =>
          /\ reply'.status = 404
          /\ reply'.detail = "Paste not found"
          /\ rows' = rows]_vars

\* C7 witness: with a paste stored, a view of another id answered 404.
C7_Witness ==
    /\ reply.op = "view" /\ reply.status = 404
    /\ reply.arg \notin StoredIds
    /\ rows # {}

\* C8: a creation whose content is missing or empty is answered 422 with no
\* URL and executes no insert, and no stored paste has empty content.
C8_ContentRequired ==
    /\ \A r \in Reqs :
           (req[r].pc # "idle" /\ req[r].form.content \in {Absent, Given("")}) =>
               /\ req[r].pc = "done"
               /\ req[r].status = 422
               /\ req[r].url = ""
               /\ req[r].inserts = 0
    /\ \A row \in rows : row.content # ""

\* C8 witness: one creation with empty content and one with missing content
\* were rejected.
C8_Witness ==
    \E r1, r2 \in Reqs :
        /\ req[r1].status = 422 /\ req[r1].form.content = Given("")
        /\ req[r2].status = 422 /\ req[r2].form.content = Absent

\* C9: ping answers {"status": "alive"} whatever the state of the storage
\* engine, and leaves the table as it was.
C9_PingAlive ==
    [][reply'.op = "ping" =>
          /\ reply'.status = 200
          /\ reply'.detail = "alive"
          /\ rows' = rows]_vars

\* C9 witness: ping answered while the storage engine was unreachable and a
\* creation had just failed on it.
C9_Witness ==
    /\ reply.op = "ping" /\ reply.status = 200
    /\ ~engineUp
    /\ \E r \in Reqs : req[r].status = 500

\* C10: an insert whose id is already stored fails: the request ends in an
\* error with no URL, and the table, the stored row of that id included, is
\* as it was.
C10_FailedInsertFrame ==
    [][\A r \in Reqs :
          (req[r].pc = "execute" /\ req'[r].pc = "done"
           /\ req[r].query.id \in StoredIds) =>
              /\ req'[r].status = 500
              /\ req'[r].url = ""
              /\ rows' = rows]_vars

\* C10 witness: a creation has failed on an id whose stored row differs from
\* the row it tried to insert.
C10_Witness ==
    \E r \in Reqs :
        /\ req[r].pc = "done" /\ req[r].status = 500
        /\ \E row \in rows : row.id = req[r].query.id /\ row # req[r].query

====
